---- MODULE Spec2Model ----
(***************************************************************************)
(* StandX two-sided maker-points strategy                                  *)
(* (strategys/strategy_standx/maker_points.py).                            *)
(*                                                                         *)
(* The model follows main() and run_strategy_cycle() call by call: every   *)
(* exchange call and every time.sleep is one step, so that an operator     *)
(* interrupt (KeyboardInterrupt) can arrive between any two of them.  The  *)
(* exchange (adapter) is the environment: every call may raise, orders     *)
(* may fill and the mark price may move between any two steps.             *)
(*                                                                         *)
(* Spec is the program as main() runs it.  SymbolsSpec is the same program *)
(* with the cycles of two symbols taking turns in one process.  PriceSpec  *)
(* applies calculate_order_price and get_current_bps to a range of marks   *)
(* and targets with no exchange involved.                                  *)
(*                                                                         *)
(* Units: a mark price is an integer number of 1/MarkScale dollars, an     *)
(* order price is an integer number of ticks (1 dollar), a balance is an   *)
(* integer number of 1/100 dollar, a quantity is an integer number of size *)
(* increments (0.0001).                                                    *)
(***************************************************************************)
EXTENDS Integers, Sequences, FiniteSets, TLC

\* ------------------------------------------------------------------ bounds
MarkScale == 2          \* mark prices are multiples of 1/MarkScale dollar
MaxCycles == 2          \* strategy cycles started by main's loop
MaxOrders == 3          \* order ids the exchange hands out
MaxEnv == 1             \* fills / mark moves the environment makes
MaxSmallMark == 5       \* the small marks priced: 1/MarkScale .. this/MarkScale
MaxMarkStep == 5        \* the marks priced above 10000: steps of 1/MarkScale
MaxTargetBps == 10      \* the targets priced: 0 .. this, in bps

\* ------------------------------------------------------- program constants
TARGET_BPS == 9
MIN_BPS == 8
MAX_BPS == 10
LEVERAGE == 40
BALANCE_PERCENT == 90
BPS_DENOM == 10000
PCT_DENOM == 100
SIDES_SPLIT == 2
QTY_PER_UNIT == 10000   \* size increments in one unit: Decimal("0.0001")
MIN_QTY == 1            \* Decimal("0.0001") in size increments
BalanceScale == QTY_PER_UNIT \div PCT_DENOM   \* balances are in 1/100 dollar

Sides == {"buy", "sell"}
SideOrder == <<"buy", "sell">>

\* ------------------------------------------------------------ pure functions

\* a pricing that ignores the side and always quotes below the mark
calculate_order_price_NoSide(mark_price, target_bps, side) ==
    LET a == mark_price \div MarkScale
        b == mark_price % MarkScale
        s == mark_price * target_bps
        d == BPS_DENOM * MarkScale
    IN  a + ((b * BPS_DENOM - s) \div d)

\* calculate_order_price: mark -/+ mark*target_bps/10000, quantized to the
\* tick of 1 with ROUND_DOWN.  With mark = a + b/MarkScale (a whole dollars),
\* price = a + floor((b*10000 -/+ mark*bps) / (10000*MarkScale)); the prices
\* of the model are non-negative, where ROUND_DOWN is the floor.
calculate_order_price(mark_price, target_bps, side) ==
    LET a == mark_price \div MarkScale
        b == mark_price % MarkScale
        s == mark_price * target_bps
        d == BPS_DENOM * MarkScale
    IN  IF side = "buy"
        THEN a + ((b * BPS_DENOM - s) \div d)
        ELSE a + ((b * BPS_DENOM + s) \div d)

\* a sizing that rounds the quantity up to the next size increment
calculate_order_quantity_RoundUp(balance, mark_price, balance_percent, leverage) ==
    (balance * balance_percent * leverage * (QTY_PER_UNIT \div (PCT_DENOM * BalanceScale)) * MarkScale
        + SIDES_SPLIT * mark_price - 1)
        \div (SIDES_SPLIT * mark_price)

\* calculate_order_quantity: balance*percent/100 / mark * leverage, quantized
\* to 0.0001 with ROUND_DOWN.  per_side_num / SIDES_SPLIT is the per-side
\* percent (balance_percent / 2); the result is in size increments.
calculate_order_quantity(balance, mark_price, balance_percent, leverage) ==
    (balance * balance_percent * leverage * (QTY_PER_UNIT \div (PCT_DENOM * BalanceScale)) * MarkScale)
        \div (SIDES_SPLIT * mark_price)

\* get_current_bps: (distance / mark) * 10000.  The value is the rational
\* get_current_bps / mark_price: the operator returns the numerator, in
\* 1/MarkScale dollars times 10000.
get_current_bps(order_price, mark_price, side) ==
    IF side = "buy"
    THEN (mark_price - order_price * MarkScale) * BPS_DENOM
    ELSE (order_price * MarkScale - mark_price) * BPS_DENOM

\* min_bps <= current_bps <= max_bps  (line 346), on the rational value
InBand(cur, mark_price, min_bps, max_bps) ==
    /\ min_bps * mark_price <= cur
    /\ cur <= max_bps * mark_price


\* ------------------------------------------------------------- configuration

\* DEFAULT_CONFIG['maker_points'] and a configuration file whose band is
\* inverted (min_bps > max_bps); load_config returns either unchanged.
DefaultConfig == [min_bps |-> MIN_BPS, target_bps |-> TARGET_BPS, max_bps |-> MAX_BPS]
InvertedConfig == [min_bps |-> MAX_BPS, target_bps |-> TARGET_BPS, max_bps |-> MIN_BPS]
Configs == {DefaultConfig, InvertedConfig}

\* the command lines of the model: <<configuration, --dry-run>>
Launches == {<<DefaultConfig, FALSE>>, <<DefaultConfig, TRUE>>,
             <<InvertedConfig, FALSE>>}

\* 0 <= min_bps <= target_bps <= max_bps
ValidConfig(c) ==
    /\ 0 <= c.min_bps
    /\ c.min_bps <= c.target_bps
    /\ c.target_bps <= c.max_bps

\* ------------------------------------------------------- exchange (adapter)

Mark0 == 10000 * MarkScale              \* 10000.0
Mark1 == 10003 * MarkScale + 1          \* 10003 + 1/MarkScale
Marks == {Mark0, Mark1}

Balances == {5, 1000}                   \* cents: 0.05 and 10.00
PosLeverages == {0, 50}                 \* position.leverage: None/0, or 50

NoOrder == [id |-> 0, side |-> "-", price |-> 0, status |-> "-"]
Order(i, s, p, st) == [id |-> i, side |-> s, price |-> p, status |-> st]

\* order.status in ["pending", "open", "partially_filled"]   (line 194)
IsLive(o) == o.status \in {"pending", "open", "partially_filled"}

LiveOn(book, s) == {o \in book : IsLive(o) /\ o.side = s}

\* the books the strategy may find when it starts
InitBooks ==
    { {},
      {Order(1, "buy", 9991, "open"), Order(2, "sell", 10009, "open")},
      {Order(1, "buy", 9993, "open"), Order(2, "sell", 10009, "open")},
      {Order(1, "buy", 9991, "open"), Order(2, "buy", 9985, "open")},
      {Order(1, "sell", 10012, "open"), Order(2, "buy", 9991, "filled")} }

FreeIds(book) == (1..MaxOrders) \ {o.id : o \in book}
NewId(book) == CHOOSE i \in FreeIds(book) : \A j \in FreeIds(book) : i <= j

\* --------------------------------------------------------------------- state
VARIABLES
    cfg,            \* config['maker_points']: min_bps, target_bps, max_bps
    symbol,         \* config['symbol'] of the strategy whose cycle runs
    dry_run,        \* args.dry_run
    pc,             \* position of main / run_strategy_cycle
    cycles,         \* cycles started so far
    mark,           \* exchange: mark price
    position,       \* exchange: signed position size
    orders,         \* exchange: the orders it reports
    env,            \* environment steps taken
    mark_price,     \* cycle local
    position_qty,   \* cycle local: abs(position.size) seen by the guard
    existing_position_leverage,   \* cycle local, 0 is None
    order_leverage, \* cycle local
    total_equity,   \* cycle local: the balance the sizing uses
    fixed_quantity, \* cycle local
    existing_orders,\* cycle local: side -> order or NoOrder
    side_i,         \* cycle local: index of the side the step-5 loop is at
    sides_to_place, \* cycle local: sequence of sides
    active_orders,  \* cycle local: sequence of [side, price]
    ORDER_START_TIMES,  \* global dict, as the set of its keys (sides)
    started_by,     \* for each key, the symbol whose cycle stored its time
    ret,            \* result of the last cycle: "none", "True", "False"
    calls           \* history: calls made since the cycle started

vars == <<cfg, symbol, dry_run, pc, cycles, mark, position, orders, env,
          mark_price, position_qty, existing_position_leverage,
          order_leverage, total_equity, fixed_quantity, existing_orders,
          side_i, sides_to_place, active_orders, ORDER_START_TIMES,
          started_by, ret, calls>>

config_vars == <<cfg, symbol, dry_run>>
exchange_vars == <<mark, position, orders, env>>
local_vars == <<mark_price, position_qty, existing_position_leverage,
                order_leverage, total_equity, fixed_quantity,
                existing_orders, side_i, sides_to_place, active_orders>>

\* an entry of the history: the call, its side ("-" when it has none),
\* whether it returned (ok) or raised, and for a cancel_order the reason the
\* cycle logs for it
Call(op, s, ok) == [op |-> op, side |-> s, ok |-> ok, reason |-> "-"]
Log(op, s, ok) == Append(calls, Call(op, s, ok))

NoOrders == [s \in Sides |-> NoOrder]

\* config['symbol']: the symbol of DEFAULT_CONFIG and a second one
Symbols == <<"BTC-USD", "ETH-USD">>

\* ORDER_START_TIMES is empty: no key has been stored by any cycle
NotStarted == [s \in Sides |-> "-"]

\* ORDER_START_TIMES[side] = time.time() at lines 332, 394 and 416, and
\* del ORDER_START_TIMES[side] at line 359: the keys become keys_
Track(keys_, stored) ==
    /\ ORDER_START_TIMES' = keys_
    /\ started_by' = [s \in Sides |->
                         IF s \notin keys_ THEN "-"
                         ELSE IF s \in stored THEN symbol
                         ELSE started_by[s]]

Init ==
    /\ \E l \in Launches :
        /\ cfg = l[1]
        /\ dry_run = l[2]
    /\ symbol = Symbols[1]
    /\ pc = "startup"
    /\ cycles = 0
    /\ mark = Mark0
    /\ position \in {0, 1}
    /\ orders \in InitBooks
    /\ env = 0
    /\ mark_price = 0
    /\ position_qty = 0
    /\ existing_position_leverage = 0
    /\ order_leverage = 0
    /\ total_equity = 0
    /\ fixed_quantity = 0
    /\ existing_orders = NoOrders
    /\ side_i = 1
    /\ sides_to_place = <<>>
    /\ active_orders = <<>>
    /\ ORDER_START_TIMES = {}
    /\ started_by = NotStarted
    /\ ret = "none"
    /\ calls = <<>>

\* ------------------------------------------------- run_strategy_cycle, 1-4

\* the cycle returns to main's loop, which sleeps rebalance_interval next
Return(r) ==
    /\ ret' = r
    /\ pc' = "sleep_interval"

\* lines 278-288: order_leverage, and whether change_leverage is called
AfterGuard(epl) ==
    /\ existing_position_leverage' = epl
    /\ order_leverage' = IF epl # 0 THEN epl ELSE LEVERAGE
    /\ pc' = IF epl = 0 /\ ~dry_run THEN "change_leverage" ELSE "get_balance"

\* main line 507 calling run_strategy_cycle, lines 217-245: the locals are
\* fresh and the mark price is read.  The ticker may raise, hold no truthy
\* price ("none"), hold a truthy price that is zero ("zero", e.g. the
\* string "0") or hold the mark.
GetTicker ==
    /\ pc = "loop"
    /\ cycles < MaxCycles
    /\ cycles' = cycles + 1
    /\ UNCHANGED <<position_qty, existing_position_leverage, order_leverage,
                   total_equity, fixed_quantity, existing_orders, side_i, sides_to_place,
                   active_orders>>
    /\ \E r \in {"raise", "none", "zero", "ok"} :
        /\ calls' = <<Call("get_ticker", "-", r \in {"zero", "ok"})>>
        /\ IF r \in {"raise", "none"}
           THEN /\ mark_price' = 0
                /\ Return("False")
           ELSE /\ mark_price' = IF r = "zero" THEN 0 ELSE mark
                /\ ret' = "none"
                /\ pc' = "get_position"
    /\ UNCHANGED <<config_vars, exchange_vars, ORDER_START_TIMES, started_by>>

\* lines 248-258 and 275-276: the position is read; a non-zero size starts
\* the flatten, a zero size (or no position, or a failed read) skips it
GetPosition ==
    /\ pc = "get_position"
    /\ \E ok \in BOOLEAN :
        /\ calls' = Log("get_position", "-", ok)
        /\ IF ok /\ position # 0
           THEN \E lev \in PosLeverages :
                /\ position_qty' = IF position < 0 THEN -position ELSE position
                /\ existing_position_leverage' = lev
                /\ pc' = "cancel_all_orders"
                /\ UNCHANGED order_leverage
           ELSE /\ AfterGuard(0)
                /\ UNCHANGED position_qty
    /\ UNCHANGED <<config_vars, exchange_vars, cycles, mark_price,
                   total_equity, fixed_quantity, existing_orders, side_i, sides_to_place,
                   active_orders, ORDER_START_TIMES, started_by, ret>>

\* lines 260-266: cancel_all_orders; its failure is swallowed and skips the
\* settle delay
GuardCancelAll ==
    /\ pc = "cancel_all_orders"
    /\ \E ok \in BOOLEAN :
        /\ calls' = Log("cancel_all_orders", "-", ok)
        /\ orders' = IF ok THEN {o \in orders : ~IsLive(o)} ELSE orders
        /\ pc' = IF ok THEN "settle_cancel_all" ELSE "close_position"
    /\ UNCHANGED <<config_vars, mark, position, env, cycles, local_vars,
                   ORDER_START_TIMES, started_by, ret>>

\* line 264: time.sleep(sleep_time)
GuardSettleCancelAll ==
    /\ pc = "settle_cancel_all"
    /\ calls' = Log("sleep", "-", TRUE)
    /\ pc' = "close_position"
    /\ UNCHANGED <<config_vars, exchange_vars, cycles, local_vars,
                   ORDER_START_TIMES, started_by, ret>>

\* lines 268-270 and 275-288: close_position; when it raises, the handler at
\* line 275 logs it and the cycle goes on with the position's leverage
GuardClosePosition ==
    /\ pc = "close_position"
    /\ \E ok \in BOOLEAN :
        /\ calls' = Log("close_position", "-", ok)
        /\ IF ok
           THEN /\ position' = 0
                /\ pc' = "settle_close"
                /\ UNCHANGED <<existing_position_leverage, order_leverage>>
           ELSE /\ position' = position
                /\ AfterGuard(existing_position_leverage)
    /\ UNCHANGED <<config_vars, mark, orders, env, cycles, mark_price,
                   position_qty, total_equity, fixed_quantity, existing_orders, side_i,
                   sides_to_place, active_orders, ORDER_START_TIMES, started_by, ret>>

\* lines 272-288: the settle delay after the close, then the configured
\* leverage is used
GuardSettleClose ==
    /\ pc = "settle_close"
    /\ calls' = Log("sleep", "-", TRUE)
    /\ AfterGuard(0)
    /\ UNCHANGED <<config_vars, exchange_vars, cycles, mark_price,
                   position_qty, total_equity, fixed_quantity, existing_orders, side_i,
                   sides_to_place, active_orders, ORDER_START_TIMES, started_by, ret>>

\* lines 283-288: change_leverage; its failure is logged only
ChangeLeverage ==
    /\ pc = "change_leverage"
    /\ \E ok \in BOOLEAN : calls' = Log("change_leverage", "-", ok)
    /\ pc' = "get_balance"
    /\ UNCHANGED <<config_vars, exchange_vars, cycles, local_vars,
                   ORDER_START_TIMES, started_by, ret>>

\* a cycle that swallows the failed balance read and goes on, like the
\* handlers of the guard and of change_leverage do
OnBalanceFailed_Swallowed ==
    /\ pc' = "get_open_orders"
    /\ UNCHANGED <<ret, total_equity, fixed_quantity>>

\* lines 298-300: the balance read raised: the cycle returns False
OnBalanceFailed ==
    /\ Return("False")
    /\ UNCHANGED <<total_equity, fixed_quantity>>

\* lines 290-304: the balance read and the sizing.  A failed read returns
\* False.  calculate_order_quantity divides by the mark price outside any
\* try: with a zero mark price decimal raises and the exception leaves
\* run_strategy_cycle and main's loop (main catches KeyboardInterrupt only).
GetBalance ==
    /\ pc = "get_balance"
    /\ \/ /\ calls' = Log("get_balance", "-", FALSE)
          /\ OnBalanceFailed
       \/ \E balance \in Balances :
          /\ calls' = Log("get_balance", "-", TRUE)
          /\ IF mark_price = 0
             THEN /\ pc' = "crashed"
                  /\ UNCHANGED <<total_equity, fixed_quantity, ret>>
             ELSE /\ total_equity' = balance
                  /\ fixed_quantity' = calculate_order_quantity(
                         total_equity', mark_price, BALANCE_PERCENT, order_leverage)
                  /\ pc' = "get_open_orders"
                  /\ UNCHANGED ret
    /\ UNCHANGED <<config_vars, exchange_vars, cycles, mark_price,
                   position_qty, existing_position_leverage, order_leverage,
                   existing_orders, side_i, sides_to_place, active_orders,
                   ORDER_START_TIMES, started_by>>

\* get_existing_orders: of the live orders of a side the last one of the
\* list wins (any of them, as the list's order is the exchange's); a failed
\* read is swallowed and reports no order on either side
ExistingChoices(book) ==
    { f \in [Sides -> book \cup {NoOrder}] :
        \A s \in Sides :
            IF LiveOn(book, s) = {} THEN f[s] = NoOrder ELSE f[s] \in LiveOn(book, s) }

GetOpenOrders ==
    /\ pc = "get_open_orders"
    /\ \/ /\ calls' = Log("get_open_orders", "-", FALSE)
          /\ existing_orders' = NoOrders
       \/ /\ calls' = Log("get_open_orders", "-", TRUE)
          /\ existing_orders' \in ExistingChoices(orders)
    /\ side_i' = 1
    /\ pc' = "process_side"
    /\ UNCHANGED <<config_vars, exchange_vars, cycles, mark_price,
                   position_qty, existing_position_leverage, order_leverage,
                   total_equity, fixed_quantity, sides_to_place, active_orders,
                   ORDER_START_TIMES, started_by, ret>>

\* ------------------------------------------------- run_strategy_cycle, 5-7

\* cancel_order(order_id): the order stops resting
CancelOrder(book, id) == {o \in book : ~(o.id = id /\ IsLive(o))}

\* the entry of sides_to_place (lines 371-376) and of active_orders (337-343)
ToPlace(side) ==
    [side |-> side,
     price |-> calculate_order_price(mark_price, cfg.target_bps, side),
     quantity |-> fixed_quantity]
Shown(side, price) == [side |-> side, price |-> price]

\* [o for o in active_orders if o['side'] != side]   (line 368)
Without(seq, side) == SelectSeq(seq, LAMBDA o : o.side # side)

\* a cycle that goes from the last side straight to the placing loop, with
\* no settle delay
NextSide_NoSettle(to_place) ==
    IF side_i < Len(SideOrder)
    THEN /\ side_i' = side_i + 1
         /\ pc' = "process_side"
         /\ ret' = ret
    ELSE /\ side_i' = side_i
         /\ IF to_place = <<>>
            THEN Return("True")
            ELSE /\ pc' = "place_order"
                 /\ ret' = ret

\* the end of one iteration of the loop at line 316: the next side, or after
\* the last side lines 378-384 and 427-467: the settle delay when something
\* is to be placed (not in a dry run), the placing loop, or the return
NextSide(to_place) ==
    IF side_i < Len(SideOrder)
    THEN /\ side_i' = side_i + 1
         /\ pc' = "process_side"
         /\ ret' = ret
    ELSE /\ side_i' = side_i
         /\ IF to_place = <<>>
            THEN Return("True")
            ELSE /\ pc' = IF dry_run THEN "place_order" ELSE "settle_place"
                 /\ ret' = ret

\* lines 350-353: the reason logged with a cancel
Reason(cur, mark_price_, min_bps) ==
    IF cur < min_bps * mark_price_ THEN "too close" ELSE "too far"

\* a cycle that gives up when a cancel fails (return False in place of
\* continue)
OnCancelFailed_Abort(to_place) ==
    /\ side_i' = side_i
    /\ Return("False")

\* lines 361-365: cancel_order raised: continue with the next side
OnCancelFailed(to_place) == NextSide(to_place)

\* lines 316-376: one side of the loop of step 5
ProcessSide ==
    /\ pc = "process_side"
    /\ LET side == SideOrder[side_i]
           existing_order == existing_orders[side]
           current_bps == get_current_bps(existing_order.price, mark_price, side)
           tracked == ORDER_START_TIMES \cup {side}
           first_seen == {side} \ ORDER_START_TIMES
           shown == Append(active_orders, Shown(side, existing_order.price))
           reason == Reason(current_bps, mark_price, cfg.min_bps)
       IN
       IF fixed_quantity < MIN_QTY
       THEN \* line 320: continue
            /\ NextSide(sides_to_place)
            /\ UNCHANGED <<orders, sides_to_place, active_orders,
                           ORDER_START_TIMES, started_by, calls>>
       ELSE IF existing_order = NoOrder
       THEN \* nothing rests: the side needs an order
            /\ sides_to_place' = Append(sides_to_place, ToPlace(side))
            /\ NextSide(sides_to_place')
            /\ UNCHANGED <<orders, active_orders, ORDER_START_TIMES, started_by, calls>>
       ELSE IF InBand(current_bps, mark_price, cfg.min_bps, cfg.max_bps)
       THEN \* lines 346-347: keep
            /\ Track(tracked, first_seen)
            /\ active_orders' = shown
            /\ NextSide(sides_to_place)
            /\ UNCHANGED <<orders, sides_to_place, calls>>
       ELSE \* lines 348-376: drifted, the uptime is reset and the order cancelled
            /\ Track(tracked \ {side}, {})
            /\ IF dry_run
               THEN /\ active_orders' = Without(shown, side)
                    /\ sides_to_place' = Append(sides_to_place, ToPlace(side))
                    /\ NextSide(sides_to_place')
                    /\ UNCHANGED <<orders, calls>>
               ELSE \E ok \in BOOLEAN :
                    /\ calls' = Append(calls,
                          [Call("cancel_order", side, ok) EXCEPT !.reason = reason])
                    /\ IF ok
                       THEN /\ orders' = CancelOrder(orders, existing_order.id)
                            /\ active_orders' = Without(shown, side)
                            /\ sides_to_place' = Append(sides_to_place, ToPlace(side))
                            /\ NextSide(sides_to_place')
                       ELSE /\ orders' = orders
                            /\ active_orders' = shown
                            /\ sides_to_place' = sides_to_place
                            /\ OnCancelFailed(sides_to_place)
    /\ UNCHANGED <<config_vars, mark, position, env, cycles, mark_price,
                   position_qty, existing_position_leverage, order_leverage,
                   total_equity, fixed_quantity, existing_orders>>

\* line 380: time.sleep(sleep_time) before the new orders
SettlePlace ==
    /\ pc = "settle_place"
    /\ calls' = Log("sleep", "-", TRUE)
    /\ pc' = "place_order"
    /\ UNCHANGED <<config_vars, exchange_vars, cycles, local_vars,
                   ORDER_START_TIMES, started_by, ret>>

\* the end of one iteration of the loop at line 384; after the last entry
\* the cycle renders its report and returns True (lines 427-467)
NextPlace ==
    /\ sides_to_place' = Tail(sides_to_place)
    /\ IF Tail(sides_to_place) = <<>>
       THEN Return("True")
       ELSE /\ pc' = "place_order"
            /\ ret' = ret

\* lines 384-425: one entry of sides_to_place
PlaceOrder ==
    /\ pc = "place_order"
    /\ LET order_info == Head(sides_to_place)
           side == order_info.side
           placed == /\ Track(ORDER_START_TIMES \cup {side}, {side})
                     /\ active_orders' = Append(active_orders,
                                                Shown(side, order_info.price))
       IN
       IF order_info.quantity < MIN_QTY
       THEN UNCHANGED <<orders, ORDER_START_TIMES, started_by, active_orders, calls>>
       ELSE IF dry_run
       THEN /\ placed
            /\ UNCHANGED <<orders, calls>>
       ELSE \/ /\ FreeIds(orders) # {}
               /\ calls' = Log("place_order", side, TRUE)
               /\ orders' = orders \cup
                     {Order(NewId(orders), side, order_info.price, "open")}
               /\ placed
            \/ /\ calls' = Log("place_order", side, FALSE)
               /\ UNCHANGED <<orders, ORDER_START_TIMES, started_by, active_orders>>
    /\ NextPlace
    /\ UNCHANGED <<config_vars, mark, position, env, cycles, mark_price,
                   position_qty, existing_position_leverage, order_leverage,
                   total_equity, fixed_quantity, existing_orders, side_i>>

\* ---------------------------------------------------------------------- main

\* the frame of run_strategy_cycle is gone: its locals are unset
Unwind ==
    /\ mark_price' = 0
    /\ position_qty' = 0
    /\ existing_position_leverage' = 0
    /\ order_leverage' = 0
    /\ total_equity' = 0
    /\ fixed_quantity' = 0
    /\ existing_orders' = NoOrders
    /\ side_i' = 1
    /\ sides_to_place' = <<>>
    /\ active_orders' = <<>>

\* lines 507-508: the result of the cycle is dropped and main sleeps
\* rebalance_interval
SleepInterval ==
    /\ pc = "sleep_interval"
    /\ pc' = "loop"
    /\ ret' = "none"
    /\ calls' = <<>>
    /\ Unwind
    /\ UNCHANGED <<config_vars, exchange_vars, cycles, ORDER_START_TIMES, started_by>>

\* lines 470-503: the configuration is loaded as it is (no check of the
\* band) and the adapter is created and connected; a failure to connect
\* exits with status 1, otherwise the strategy loop is entered
Startup ==
    /\ pc = "startup"
    /\ \E ok \in BOOLEAN : pc' = IF ok THEN "loop" ELSE "exit_1"
    /\ UNCHANGED <<config_vars, exchange_vars, cycles, local_vars,
                   ORDER_START_TIMES, started_by, ret, calls>>

BoundaryPcs == {"loop"}
SleepPcs == {"sleep_interval", "settle_cancel_all", "settle_close", "settle_place"}
CallPcs == {"get_position", "cancel_all_orders", "close_position",
            "change_leverage", "get_balance", "get_open_orders",
            "process_side", "place_order"}
LoopPcs == BoundaryPcs \cup SleepPcs \cup CallPcs
TeardownPcs == {"td_cancel_all_orders", "td_get_position", "td_close_position"}

\* lines 505-512: Ctrl+C raises KeyboardInterrupt at whatever statement the
\* loop is executing; no handler in run_strategy_cycle catches it (they catch
\* Exception), so the statement at pc is not executed and main's handler
\* runs; in a dry run the handler does nothing.  The frame of the cycle is
\* unwound (its locals are gone) and the history starts again at the
\* interrupt.
Interrupt ==
    /\ pc \in LoopPcs
    /\ calls' = <<Call("interrupt", "-", TRUE)>>
    /\ pc' = IF dry_run THEN "exited" ELSE "td_cancel_all_orders"
    /\ ret' = "none"
    /\ Unwind
    /\ UNCHANGED <<config_vars, exchange_vars, cycles, ORDER_START_TIMES, started_by>>

\* lines 515-521: cancel_all_orders of the teardown; a failure is printed
TeardownCancelAll ==
    /\ pc = "td_cancel_all_orders"
    /\ \E ok \in BOOLEAN :
        /\ calls' = Log("cancel_all_orders", "-", ok)
        /\ orders' = IF ok THEN {o \in orders : ~IsLive(o)} ELSE orders
    /\ pc' = "td_get_position"
    /\ UNCHANGED <<config_vars, mark, position, env, cycles, local_vars,
                   ORDER_START_TIMES, started_by, ret>>

\* lines 524-527 and 530-533: the position read of the teardown
TeardownGetPosition ==
    /\ pc = "td_get_position"
    /\ \E ok \in BOOLEAN :
        /\ calls' = Log("get_position", "-", ok)
        /\ pc' = IF ok /\ position # 0 THEN "td_close_position" ELSE "exited"
    /\ UNCHANGED <<config_vars, exchange_vars, cycles, local_vars,
                   ORDER_START_TIMES, started_by, ret>>

\* lines 528-529 and 532-533: close_position of the teardown
TeardownClosePosition ==
    /\ pc = "td_close_position"
    /\ \E ok \in BOOLEAN :
        /\ calls' = Log("close_position", "-", ok)
        /\ position' = IF ok THEN 0 ELSE position
    /\ pc' = "exited"
    /\ UNCHANGED <<config_vars, mark, orders, env, cycles, local_vars,
                   ORDER_START_TIMES, started_by, ret>>

\* lines 509-533: a further Ctrl+C while the handler runs is a
\* KeyboardInterrupt raised inside the except block; nothing catches it and
\* the process ends with the rest of the teardown not executed
InterruptTeardown ==
    /\ pc \in TeardownPcs
    /\ calls' = Log("interrupt", "-", TRUE)
    /\ pc' = "killed"
    /\ UNCHANGED <<config_vars, exchange_vars, cycles, local_vars,
                   ORDER_START_TIMES, started_by, ret>>

\* --------------------------------------------------------------- environment

Running == pc \in LoopPcs \cup TeardownPcs

\* the mark price moves
MarkMove ==
    /\ Running
    /\ env < MaxEnv
    /\ env' = env + 1
    /\ mark' \in Marks \ {mark}
    /\ UNCHANGED <<config_vars, pc, cycles, position, orders, local_vars,
                   ORDER_START_TIMES, started_by, ret, calls>>

\* a resting order is filled: it leaves the book and the position moves
Fill ==
    /\ Running
    /\ env < MaxEnv
    /\ env' = env + 1
    /\ \E o \in orders :
        /\ IsLive(o)
        /\ position' = IF o.side = "buy" THEN position + 1 ELSE position - 1
        /\ position' \in -1..1
        /\ orders' = orders \ {o}
    /\ UNCHANGED <<config_vars, pc, cycles, mark, local_vars,
                   ORDER_START_TIMES, started_by, ret, calls>>

Next ==
    \/ Startup
    \/ GetTicker
    \/ GetPosition
    \/ GuardCancelAll
    \/ GuardSettleCancelAll
    \/ GuardClosePosition
    \/ GuardSettleClose
    \/ ChangeLeverage
    \/ GetBalance
    \/ GetOpenOrders
    \/ ProcessSide
    \/ SettlePlace
    \/ PlaceOrder
    \/ SleepInterval
    \/ Interrupt
    \/ TeardownCancelAll
    \/ TeardownGetPosition
    \/ TeardownClosePosition
    \/ InterruptTeardown
    \/ MarkMove
    \/ Fill

Spec == Init /\ [][Next]_vars

\* ------------------------------------- two strategies in one process

\* between two cycles the process turns to the strategy of the other
\* symbol: run_strategy_cycle is next called with that symbol's config, and
\* the exchange calls of the cycle see that symbol's mark, position and
\* orders.  The module-level ORDER_START_TIMES is the same dict.
SwitchSymbol ==
    /\ pc = "loop"
    /\ symbol' \in {Symbols[i] : i \in 1..Len(Symbols)} \ {symbol}
    /\ mark' \in Marks
    /\ position' \in {0, 1}
    /\ orders' \in InitBooks
    /\ UNCHANGED <<cfg, dry_run, pc, env, cycles, local_vars,
                   ORDER_START_TIMES, started_by, ret, calls>>

SymbolsNext == Next \/ SwitchSymbol

SymbolsSpec == Init /\ [][SymbolsNext]_vars

\* ------------------------------------------- the loop running for ever

\* the books the loop is entered with: nothing resting, or one quote that
\* is too close to the mark
RetryBooks == { {}, {Order(1, "buy", 9993, "open")} }

\* main has entered its loop (line 505) and is not a dry run; the position
\* is zero
RetryInit ==
    /\ cfg = DefaultConfig
    /\ symbol = Symbols[1]
    /\ dry_run = FALSE
    /\ pc = "loop"
    /\ cycles = 0
    /\ mark = Mark0
    /\ position = 0
    /\ orders \in RetryBooks
    /\ env = 0
    /\ mark_price = 0
    /\ position_qty = 0
    /\ existing_position_leverage = 0
    /\ order_leverage = 0
    /\ total_equity = 0
    /\ fixed_quantity = 0
    /\ existing_orders = NoOrders
    /\ side_i = 1
    /\ sides_to_place = <<>>
    /\ active_orders = <<>>
    /\ ORDER_START_TIMES = {}
    /\ started_by = NotStarted
    /\ ret = "none"
    /\ calls = <<>>

\* lines 505-508: while True.  The counter of cycles stops at MaxCycles:
\* from then on every cycle counts as the MaxCycles-th.
RetrySleep ==
    /\ pc = "sleep_interval"
    /\ pc' = "loop"
    /\ ret' = "none"
    /\ calls' = <<>>
    /\ cycles' = IF cycles = MaxCycles THEN cycles - 1 ELSE cycles
    /\ Unwind
    /\ UNCHANGED <<config_vars, exchange_vars, ORDER_START_TIMES, started_by>>

\* the exchange calls eventually succeed and the quantity is eventually at
\* least one increment: from the MaxCycles-th cycle on no call of a cycle
\* raises, and the balance sizes an order of one increment or more
EventuallySucceed ==
    cycles' = MaxCycles =>
        /\ \A i \in 1..Len(calls') : calls'[i].ok
        /\ total_equity' # 0 => fixed_quantity' >= MIN_QTY

\* the steps of main's loop and of the cycle; the position being zero, the
\* guard has nothing to flatten
RetryProgram ==
    \/ GetTicker
    \/ GetPosition
    \/ ChangeLeverage
    \/ GetBalance
    \/ GetOpenOrders
    \/ ProcessSide
    \/ SettlePlace
    \/ PlaceOrder
    \/ RetrySleep

\* the mark price moves at most MaxEnv times (MarkMove): it is eventually
\* stable
RetryNext ==
    \/ GetTicker /\ EventuallySucceed
    \/ GetPosition /\ EventuallySucceed
    \/ ChangeLeverage /\ EventuallySucceed
    \/ GetBalance /\ EventuallySucceed
    \/ GetOpenOrders /\ EventuallySucceed
    \/ ProcessSide /\ EventuallySucceed
    \/ SettlePlace /\ EventuallySucceed
    \/ PlaceOrder /\ EventuallySucceed
    \/ RetrySleep /\ EventuallySucceed
    \/ MarkMove

\* the process keeps running: a step of the loop that can be taken is taken
RetrySpec ==
    /\ RetryInit
    /\ [][RetryNext]_vars
    /\ WF_vars(RetryProgram /\ EventuallySucceed)

\* ------------------------------------------- the pricing functions alone

\* the mark prices and targets the pricing is applied to: marks below and
\* around one tick, marks from 10000 on in steps of 1/MarkScale (multiples
\* of the tick and not), the mark 100000; targets from 0 on
ScenarioMark == 10 * Mark0
PriceMarks == (1..MaxSmallMark) \cup {Mark0 + i : i \in 0..MaxMarkStep}
                  \cup {ScenarioMark}
PriceTargets == 0..MaxTargetBps

\* an entry of active_orders with its distance (lines 337-343)
Quoted(side, price, bps) == [side |-> side, price |-> price, bps |-> bps]

\* run_strategy_cycle entered at step 5 with a mark price and a target: no
\* exchange is involved
PriceInit ==
    /\ cfg \in {[DefaultConfig EXCEPT !.target_bps = b] : b \in PriceTargets}
    /\ symbol = Symbols[1]
    /\ dry_run = TRUE
    /\ pc = "price_side"
    /\ cycles = 0
    /\ mark = Mark0
    /\ position = 0
    /\ orders = {}
    /\ env = 0
    /\ mark_price \in PriceMarks
    /\ position_qty = 0
    /\ existing_position_leverage = 0
    /\ order_leverage = 0
    /\ total_equity = 0
    /\ fixed_quantity = 0
    /\ existing_orders = NoOrders
    /\ side_i = 1
    /\ sides_to_place = <<>>
    /\ active_orders = <<>>
    /\ ORDER_START_TIMES = {}
    /\ started_by = NotStarted
    /\ ret = "none"
    /\ calls = <<>>

\* lines 316-317 and 328: the target price of the side, and the distance
\* get_current_bps measures for a quote resting at that price
PriceSide ==
    /\ pc = "price_side"
    /\ LET side == SideOrder[side_i]
           target_price == calculate_order_price(mark_price, cfg.target_bps, side)
           current_bps == get_current_bps(target_price, mark_price, side)
       IN  active_orders' = Append(active_orders,
                                   Quoted(side, target_price, current_bps))
    /\ IF side_i < Len(SideOrder)
       THEN /\ side_i' = side_i + 1
            /\ pc' = pc
       ELSE /\ side_i' = side_i
            /\ pc' = "priced"
    /\ UNCHANGED <<config_vars, exchange_vars, cycles, mark_price,
                   position_qty, existing_position_leverage, order_leverage,
                   total_equity, fixed_quantity, existing_orders,
                   sides_to_place, ORDER_START_TIMES, started_by, ret, calls>>

PriceNext == PriceSide

PriceSpec == PriceInit /\ [][PriceNext]_vars

\* -------------------------------------------------------------------- claims

\* positions of the history holding a call (of a side)
Idx(op) == {i \in 1..Len(calls) : calls[i].op = op}
IdxOf(op, s) == {i \in Idx(op) : calls[i].side = s}
Called(op) == Idx(op) # {}
Failed(op) == \E i \in Idx(op) : ~calls[i].ok

\* a cycle has returned to main's loop, which has not slept yet
CycleReturned == pc = "sleep_interval"

\* C1 (as claimed): run_strategy_cycle never calls place_order for a side
\* while a live order of that side rests on the exchange.
C1_NeverPlaceOverLiveOrder ==
    [][\A s \in Sides :
         (/\ pc = "place_order"
          /\ Len(calls') = Len(calls) + 1
          /\ calls'[Len(calls')].op = "place_order"
          /\ calls'[Len(calls')].side = s)
         => LiveOn(orders, s) = {}]_vars

\* C2 (as claimed): in a cycle that ran to its end (valid band, not a dry
\* run), every side with an existing live quote is kept (no cancel, no place)
\* when its distance is inside the band, and gets a cancel with reason
\* "too close" / "too far" when it is below / above it, whatever the computed
\* quantity is.
C2_ExistingQuoteOutcome ==
    (CycleReturned /\ ret = "True" /\ ~dry_run /\ ValidConfig(cfg)) =>
        \A s \in Sides :
            existing_orders[s] # NoOrder =>
                LET cur == get_current_bps(existing_orders[s].price, mark_price, s)
                IN  IF InBand(cur, mark_price, cfg.min_bps, cfg.max_bps)
                    THEN IdxOf("cancel_order", s) = {} /\ IdxOf("place_order", s) = {}
                    ELSE \E i \in IdxOf("cancel_order", s) :
                            calls[i].reason =
                                IF cur < cfg.min_bps * mark_price
                                THEN "too close" ELSE "too far"

\* C3 (as claimed): a cycle that starts while the position is non-zero does
\* not end before the guard has read the position, and a guard that read a
\* non-zero position has attempted cancel_all_orders and then close_position
\* by the end of the cycle.
C3_GuardUnconditional ==
    /\ [][(pc = "loop" /\ pc' # "loop" /\ position # 0 /\ pc' \in LoopPcs)
            => pc' = "get_position"]_vars
    /\ []((CycleReturned /\ position_qty # 0) =>
            \E i \in Idx("cancel_all_orders") :
                \E j \in Idx("close_position") : i < j)

\* C4 (as claimed): in a cycle where a non-zero position is detected,
\* close_position comes after cancel_all_orders, and the balance read and
\* every cancel_order and place_order come after cancel_all_orders,
\* close_position and the settle delay that follows it, in that order.
C4_FlattenOrder ==
    position_qty # 0 =>
        /\ \A j \in Idx("close_position") :
              \E i \in Idx("cancel_all_orders") : i < j
        /\ \A k \in Idx("get_balance") \cup Idx("cancel_order") \cup Idx("place_order") :
              \E i \in Idx("cancel_all_orders") :
                \E j \in Idx("close_position") :
                    \E d \in Idx("sleep") : i < j /\ j < d /\ d < k

C6_SideServed(s) ==
    LET cur == get_current_bps(existing_orders[s].price, mark_price, s)
        cancels == IdxOf("cancel_order", s)
        places == IdxOf("place_order", s)
    IN  IF fixed_quantity < MIN_QTY
        THEN cancels = {} /\ places = {}
        ELSE IF existing_orders[s] = NoOrder
        THEN cancels = {} /\ places # {}
        ELSE IF InBand(cur, mark_price, cfg.min_bps, cfg.max_bps)
        THEN cancels = {} /\ places = {}
        ELSE /\ cancels # {}
             /\ places # {} <=> (\E i \in cancels : calls[i].ok)

\* C6: in a cycle that reached the per-side processing (not a dry run),
\* whichever cancel_order and place_order calls fail, the cycle returns True
\* and each side has received the action its own state calls for: nothing
\* when the quantity is below the increment or its quote is in the band, a
\* place_order when it has no quote, a cancel_order when its quote drifted,
\* followed by a place_order exactly when that cancel succeeded.
C6_SideFailuresIsolated ==
    (CycleReturned /\ Called("get_open_orders") /\ ~dry_run) =>
        /\ ret = "True"
        /\ \A s \in Sides : C6_SideServed(s)

\* C6 witness: the cancel of the buy side failed and the sell side was still
\* given its place_order in the same cycle.
C6_Witness ==
    /\ CycleReturned
    /\ ret = "True"
    /\ \E i \in IdxOf("cancel_order", "buy") : ~calls[i].ok
    /\ IdxOf("place_order", "sell") # {}

\* C7 (as claimed): no failure or unexpected value of an exchange call ends
\* the scheduling loop of main.
C7_LoopSurvivesExchange == pc # "crashed"

\* C8 (as claimed): once the process has ended after an operator interrupt
\* (not a dry run), the teardown has run to its end: cancel_all_orders was
\* called, then the position was read, and no further interrupt cut it short.
C8_TeardownCompletes ==
    /\ pc # "killed"
    /\ (pc = "exited" /\ ~dry_run) =>
          \E i \in Idx("cancel_all_orders") :
              \E j \in Idx("get_position") : i < j

\* C9 (as claimed): the operator interrupt is honoured only at a cycle
\* boundary or at a sleep point, never between two exchange calls of a cycle.
C9_InterruptOnlyAtSleepPoints ==
    [][(pc \in LoopPcs /\ pc' \in {"td_cancel_all_orders", "exited"})
         => pc \in BoundaryPcs \cup SleepPcs]_vars

\* C10 (as claimed): with a configuration that violates
\* 0 <= min_bps <= target_bps <= max_bps main never enters the strategy loop
\* and no cancel_order or place_order is made.
C10_InvalidConfigRejected ==
    ~ValidConfig(cfg) =>
        /\ pc \in {"startup", "exit_1"}
        /\ ~Called("cancel_order") /\ ~Called("place_order")

\* the exact per-side quantity of the cycle, in size increments, is
\* ExactNum / ExactDen: capital * (balance_percent/2)/100 * leverage / mark
ExactNum == total_equity * BALANCE_PERCENT * order_leverage * MarkScale
                * (QTY_PER_UNIT \div (PCT_DENOM * BalanceScale))
ExactDen == SIDES_SPLIT * mark_price

\* the cycle has read its balance and sized its orders
Sized == total_equity # 0

\* C11: the quantity of a cycle is a whole number of size increments not
\* above the exact value capital * (balance_percent/2)/100 * leverage / mark
\* and less than one increment below it; every place_order passes that
\* quantity and it is at least one increment; a cycle whose quantity is
\* below one increment returns True with no cancel_order and no place_order.
C11_QuantityTruncated ==
    /\ Sized =>
          /\ fixed_quantity \in Nat
          /\ fixed_quantity * ExactDen <= ExactNum
          /\ ExactNum < (fixed_quantity + 1) * ExactDen
    /\ \A i \in 1..Len(sides_to_place) :
          sides_to_place[i].quantity = fixed_quantity
    /\ Called("place_order") => fixed_quantity >= MIN_QTY
    /\ (CycleReturned /\ Sized /\ fixed_quantity < MIN_QTY) =>
          /\ ret = "True"
          /\ ~Called("cancel_order") /\ ~Called("place_order")

\* C11 witness: a cycle placed an order whose quantity is strictly below the
\* exact value (the truncation cut something off).
C11_Witness ==
    /\ CycleReturned
    /\ Called("place_order")
    /\ fixed_quantity * ExactDen < ExactNum

\* C12 (as claimed): in a sized cycle the balance was read once, every side
\* to place carries the one quantity sized from it, and the sum over the two
\* sides of target_price * target_quantity is not above
\* capital * balance_percent/100 * leverage with the configured leverage.
C12_CapitalConserved ==
    Sized =>
        /\ Cardinality(Idx("get_balance")) = 1
        /\ \A i \in 1..Len(sides_to_place) :
              sides_to_place[i].quantity = fixed_quantity
        /\ (calculate_order_price(mark_price, cfg.target_bps, "buy")
             + calculate_order_price(mark_price, cfg.target_bps, "sell"))
               * fixed_quantity
             <= total_equity * BALANCE_PERCENT * LEVERAGE
                  * (QTY_PER_UNIT \div (PCT_DENOM * BalanceScale))

\* the quotes priced so far
QuotedSet == {active_orders[i] : i \in 1..Len(active_orders)}

\* C13 (as claimed): for every mark > 0, every target_bps >= 0 and both
\* sides, the distance of the price calculate_order_price returns, measured
\* by get_current_bps, is at least target_bps.
C13_NeverCloserThanTarget ==
    \A o \in QuotedSet : o.bps >= cfg.target_bps * mark_price

\* C14: for both sides, every mark > 0 and every target_bps >= 0, the
\* distance get_current_bps measures for the price calculate_order_price
\* returns differs from target_bps by less than the bps value of one tick
\* (tick/mark * 10000); mark 100000, target 9, buy gives price 99910 and
\* distance exactly 9.
C14_RoundTrip ==
    \A o \in QuotedSet :
        /\ o.bps - cfg.target_bps * mark_price < BPS_DENOM * MarkScale
        /\ cfg.target_bps * mark_price - o.bps < BPS_DENOM * MarkScale
        /\ (mark_price = ScenarioMark /\ cfg.target_bps = TARGET_BPS /\ o.side = "buy")
              => (o.price = 99910 /\ o.bps = TARGET_BPS * mark_price)

\* C14 witness: the mark 100000 with target 9 has been priced on both
\* sides, the buy quote at 99910 with a measured distance of exactly 9.
C14_Witness ==
    /\ pc = "priced"
    /\ mark_price = ScenarioMark
    /\ cfg.target_bps = TARGET_BPS
    /\ \E o \in QuotedSet :
          o.side = "buy" /\ o.price = 99910 /\ o.bps = TARGET_BPS * mark_price

\* C15 (as claimed): for every mark > 0 and every target_bps >= 0 the buy
\* price is strictly below the mark and the sell price is at or above it.
C15_NeverCrossMark ==
    \A o \in QuotedSet :
        IF o.side = "buy"
        THEN o.price * MarkScale < mark_price
        ELSE mark_price <= o.price * MarkScale

\* the calls that change the state of the exchange
StateChanging == {"cancel_order", "place_order", "cancel_all_orders",
                  "close_position", "change_leverage"}

\* the cycle found a resting quote inside the band on side s
KeptSide(s) ==
    /\ existing_orders[s] # NoOrder
    /\ InBand(get_current_bps(existing_orders[s].price, mark_price, s),
              mark_price, cfg.min_bps, cfg.max_bps)

\* C16 (as claimed): a cycle that found the position zero and a resting
\* quote inside the band on both sides has made no state-changing exchange
\* call (cancel_order, place_order, cancel_all_orders, close_position,
\* change_leverage), and keeping a side whose uptime start is already
\* recorded leaves ORDER_START_TIMES as it was.
C16_KeepIdempotent ==
    /\ []((CycleReturned /\ Called("get_open_orders")
             /\ ~Failed("get_position") /\ position_qty = 0
             /\ \A s \in Sides : KeptSide(s))
           => \A i \in 1..Len(calls) : calls[i].op \notin StateChanging)
    /\ [][(pc = "process_side" /\ fixed_quantity >= MIN_QTY
             /\ KeptSide(SideOrder[side_i])
             /\ SideOrder[side_i] \in ORDER_START_TIMES)
           => UNCHANGED <<ORDER_START_TIMES, started_by>>]_vars

\* the step is a cancel_order of side s that raised
CancelFailedStep(s) ==
    /\ pc = "process_side"
    /\ Len(calls') = Len(calls) + 1
    /\ calls'[Len(calls')] \in
          {[Call("cancel_order", s, FALSE) EXCEPT !.reason = r] :
              r \in {"too close", "too far"}}

\* C17 (as claimed): when cancel_order fails for a drifted side, no
\* place_order is issued for that side in the cycle, the side is still in
\* the cycle's reported active orders, and its uptime start in
\* ORDER_START_TIMES is the one it had before the side was processed.
C17_FailedCancelLeavesSide ==
    /\ [](\A s \in Sides :
            (\E i \in IdxOf("cancel_order", s) : ~calls[i].ok)
                => IdxOf("place_order", s) = {})
    /\ [][\A s \in Sides :
            CancelFailedStep(s) =>
                /\ \E i \in 1..Len(active_orders') : active_orders'[i].side = s
                /\ (s \in ORDER_START_TIMES') <=> (s \in ORDER_START_TIMES)
                /\ started_by'[s] = started_by[s]]_vars

\* the step is a place_order call
PlaceStep == pc = "place_order" /\ Len(calls') = Len(calls) + 1

\* C18 (as claimed): place_order is not called in a cycle that observed a
\* non-zero position unless close_position returned successfully earlier in
\* the cycle, and not while a position is open in a cycle whose get_position
\* failed.
C18_NoQuoteOverOpenPosition ==
    [][PlaceStep =>
        /\ position_qty # 0 => \E i \in Idx("close_position") : calls[i].ok
        /\ Failed("get_position") => position = 0]_vars

\* C19: within one cycle every cancel_order comes before every place_order
\* with a settle delay between them, each side gets at most one cancel_order
\* and at most one place_order, and in a cycle that ran to its end a side
\* whose quote was successfully cancelled has been given a place_order.
C19_CancelSettlePlace ==
    /\ \A i \in Idx("cancel_order") : \A j \in Idx("place_order") :
          \E d \in Idx("sleep") : i < d /\ d < j
    /\ \A s \in Sides :
          /\ Cardinality(IdxOf("cancel_order", s)) <= 1
          /\ Cardinality(IdxOf("place_order", s)) <= 1
          /\ (CycleReturned /\ \E i \in IdxOf("cancel_order", s) : calls[i].ok)
                => IdxOf("place_order", s) # {}

\* C19 witness: a cycle cancelled the drifted quotes of both sides and then
\* called place_order for both.
C19_Witness ==
    /\ CycleReturned
    /\ \A s \in Sides :
          /\ \E i \in IdxOf("cancel_order", s) : calls[i].ok
          /\ IdxOf("place_order", s) # {}

\* the step is the step-5 processing of side s finding a resting order
ObserveStep(s) ==
    /\ pc = "process_side"
    /\ SideOrder[side_i] = s
    /\ fixed_quantity >= MIN_QTY
    /\ existing_orders[s] # NoOrder

\* C20 (as claimed): the uptime start a cycle of one symbol recorded for a
\* side is never set, read or cleared by a cycle of another symbol.
C20_QuoteStatePerSymbol ==
    [][\A s \in Sides :
        (started_by[s] \notin {"-", symbol}) =>
            /\ started_by'[s] = started_by[s]
            /\ ~ObserveStep(s)]_vars

\* C21 (as claimed): with dry_run set, no cycle and no shutdown ever calls
\* place_order, cancel_order, cancel_all_orders, close_position or
\* change_leverage, whatever the position and the resting orders are.
C21_DryRunChangesNothing ==
    dry_run => \A i \in 1..Len(calls) : calls[i].op \notin StateChanging

\* C22 (as claimed): under a configuration with min_bps <= target_bps <=
\* max_bps, for both sides and every mark > 0, a quote resting at
\* calculate_order_price(mark, target_bps, side) is measured inside
\* [min_bps, max_bps] at the same mark, so the next cycle keeps it.
C22_PlacedQuoteKept ==
    ValidConfig(cfg) =>
        \A o \in QuotedSet :
            InBand(o.bps, mark_price, cfg.min_bps, cfg.max_bps)

\* side s has a resting quote inside [min_bps, max_bps] of the mark
RestingInBand(s) ==
    \E o \in LiveOn(orders, s) :
        InBand(get_current_bps(o.price, mark, s), mark, cfg.min_bps, cfg.max_bps)

\* C23 (as claimed): a side is given at most one place_order per cycle, and
\* when the exchange calls eventually succeed, the mark price is eventually
\* stable, the position is zero and the quantity is at least one increment,
\* every side eventually has a resting quote inside [min_bps, max_bps] and
\* keeps one from then on.
C23_RecoveryByRetry ==
    /\ [](\A s \in Sides : Cardinality(IdxOf("place_order", s)) <= 1)
    /\ <>[](\A s \in Sides : RestingInBand(s))

====
